---------------------------- MODULE Spec2Model ----------------------------
(***************************************************************************)
(* Model of the recurring-schedule calculator (src/scheduler.py), the      *)
(* scheduling cycle that uses it, and the multi-platform publish           *)
(* orchestrator (src/engines/platform_upload_orchestrator.py) with its     *)
(* callers in src/api.py.                                                  *)
(*                                                                         *)
(* Instants are naive UTC datetimes counted in seconds from a UTC midnight *)
(* (day 0, 00:00:00).  A local wall-clock time is counted the same way.    *)
(***************************************************************************)
EXTENDS Integers, Sequences, FiniteSets, TLC

VARIABLES
    \* ---- schedule calculator, called as a function ----
    calc_plan,          \* user.plan
    calc_times,         \* series.posting_times
    calc_tz,            \* series.timezone
    calc_last,          \* last_video_time argument (NoTime = None)
    calc_now,           \* datetime.utcnow() seen by the call
    calc_pc,            \* "start" | "calculated" | "window"
    calc_next,          \* value returned by calculate_next_scheduled_time
    calc_slot,          \* argument of should_generate_now
    calc_should,        \* value returned by should_generate_now
    \* ---- one video, its generation task and its publish calls ----
    clock,              \* datetime.utcnow() during the publish calls
    series_platforms,   \* series.platforms
    connections,        \* PlatformConnection rows of the series' owner
    db_video,           \* the Video row as committed
    video_record,       \* the Video object of the running task's session
    file_exists,        \* os.path.exists(video_path) for the rendered file
    dir_exists,         \* os.path.exists(project_dir)
    posted,             \* per platform, how many videos it has accepted
    gen_pc,             \* position of process_video_generation_db
    tasks,              \* queued process_platform_upload tasks (platform lists)
    requests,           \* upload requests accepted so far
    up_pc,              \* position of upload_to_platforms
    up_caller,          \* "auto" | "manual": who called upload_to_platforms
    up_platforms,       \* argument platforms
    up_idx,             \* index of the platform the loop is at
    up_results,         \* local results (dict, in insertion order)
    up_overall_success, \* local overall_success
    up_return,          \* the returned dict (NoReturn until the call returns)
    up_start,           \* video_record and db_video as the call began
    up_log,             \* what the call did from outside, in order
    up_faults,          \* the db.commit() failures of the call
    \* ---- the scheduler, the series it polls and their videos ----
    owner,              \* the User row of the series' owner
    series_rows,        \* the Series rows, by id
    video_rows,         \* the Video rows the scheduler inserted, in order
    sched_pc,           \* position of run_scheduling_cycle
    sched_queue,        \* videos_to_generate still to be generated
    sched_log,          \* what get_videos_to_generate decided, per series
    \* ---- cron runs of the scheduler, and the Job table ----
    runs,               \* per run of run_scheduler_once: position, list, row
    jobs,               \* number of Job rows created in the current month
    \* ---- the environment of the processes ----
    env                 \* the platforms whose client credentials are set

calcVars == <<calc_plan, calc_times, calc_tz, calc_last, calc_now, calc_pc,
              calc_next, calc_slot, calc_should>>

upVars == <<clock, series_platforms, connections, db_video, video_record,
            file_exists, dir_exists, posted, gen_pc, tasks, requests,
            up_pc, up_caller, up_platforms, up_idx, up_results,
            up_overall_success, up_return, up_start, up_log, up_faults>>

schedVars == <<owner, series_rows, video_rows, sched_pc, sched_queue, sched_log>>

acctVars == <<runs, jobs>>

vars == <<calcVars, upVars, schedVars, acctVars, env>>

-----------------------------------------------------------------------------
(* Bounds of the model *)

\* days of the horizon: instants lie in days 0..MaxDay
MaxDay == 4

(* Program constants *)

\* timedelta(days=1)
Day == 86400

\* VideoScheduler.GENERATION_LEAD_TIME = timedelta(hours=1.5)
GENERATION_LEAD_TIME == 5400

\* None for an Optional[datetime]
NoTime == -1

-----------------------------------------------------------------------------
(* Time zones.  A zone is its UTC offset before and after one transition    *)
(* (trans, a UTC instant); a fixed-offset zone has off1 = off2.  A name     *)
(* that ZoneInfo() rejects has valid = FALSE.                               *)

MaxOf(a, b) == IF a >= b THEN a ELSE b

ZoneUTC     == [valid |-> TRUE,  off1 |-> 0,      off2 |-> 0,      trans |-> 0]
\* Asia/Karachi: UTC+5, no transitions
ZoneKarachi == [valid |-> TRUE,  off1 |-> 18000,  off2 |-> 18000,  trans |-> 0]
\* a zone with the United States rule: UTC-4 until 02:00 local (06:00 UTC)
\* of day 2, UTC-5 from then on (the day has 25 local hours)
ZoneNewYork == [valid |-> TRUE,  off1 |-> -14400, off2 |-> -18000,
                trans |-> 2 * Day + 6 * 3600]
\* a string that is no IANA zone
ZoneInvalid == [valid |-> FALSE, off1 |-> 0,      off2 |-> 0,      trans |-> 0]

Zones == {ZoneUTC, ZoneKarachi, ZoneNewYork, ZoneInvalid}

\* datetime.replace(tzinfo=timezone.utc).astimezone(local_tz).replace(tzinfo=None)
UtcToLocal(utc, tz) == utc + (IF utc < tz.trans THEN tz.off1 ELSE tz.off2)

\* naive.replace(tzinfo=local_tz).astimezone(timezone.utc).replace(tzinfo=None):
\* zoneinfo resolves a wall time with fold = 0, i.e. by the offset in force
\* before the transition for every wall time below trans + max(off1, off2)
ZoneLocalToUtc(local, tz) ==
    local - (IF local < tz.trans + MaxOf(tz.off1, tz.off2) THEN tz.off1 ELSE tz.off2)

\* _local_to_utc with an except clause that answers an hour off
local_to_utc_shifted(naive_dt, tz) ==
    IF tz.valid THEN ZoneLocalToUtc(naive_dt, tz) ELSE naive_dt + 3600

\* VideoScheduler._local_to_utc: an invalid zone leaves the naive datetime as it is
local_to_utc(naive_dt, tz) ==
    IF tz.valid THEN ZoneLocalToUtc(naive_dt, tz) ELSE naive_dt

-----------------------------------------------------------------------------
(* The schedule calculator *)

\* "HH:MM" after hour, minute = map(int, time_str.split(':'))
TimeStr(hour, minute) == [hour |-> hour, minute |-> minute]

\* next_local_slot (closure of calculate_next_scheduled_time)
next_local_slot(base_date_utc, time_str, tz) ==
    LET base_local == IF tz.valid THEN UtcToLocal(base_date_utc, tz) ELSE base_date_utc
        local_dt   == (base_local \div Day) * Day
                      + time_str.hour * 3600 + time_str.minute * 60
    IN  local_to_utc(local_dt, tz)

\* get_plan_posting_frequency(plan)["days_between"], for the plans that use it
days_between(plan) == IF plan = "grow" THEN 1 ELSE 2

\* while next_time <= now: candidate += timedelta(days=step); next_time = ...
RECURSIVE AdvanceUntilFuture(_, _, _, _, _)
AdvanceUntilFuture(candidate, step, time_str, tz, now) ==
    LET next_time == next_local_slot(candidate, time_str, tz)
    IN  IF next_time <= now
        THEN AdvanceUntilFuture(candidate + step * Day, step, time_str, tz, now)
        ELSE next_time

\* launch and grow branches of calculate_next_scheduled_time
SingleSlotNext(step, time_str, tz, last_video_time, now) ==
    IF last_video_time = NoTime
    THEN LET next_time == next_local_slot(now, time_str, tz)
         IN  IF next_time <= now
             THEN next_local_slot(now + Day, time_str, tz)
             ELSE next_time
    ELSE AdvanceUntilFuture(last_video_time + step * Day, step, time_str, tz, now)

\* for time_str in time_slots: first slot built on base that passes the test
RECURSIVE FirstSlot(_, _, _, _, _, _)
FirstSlot(time_slots, i, base, tz, floor1, floor2) ==
    IF i > Len(time_slots) THEN NoTime
    ELSE LET next_time == next_local_slot(base, time_slots[i], tz)
         IN  IF next_time > floor1 /\ next_time > floor2
             THEN next_time
             ELSE FirstSlot(time_slots, i + 1, base, tz, floor1, floor2)

\* scale branch of calculate_next_scheduled_time
ScaleNext(posting_times, tz, last_video_time, now) ==
    LET time_slots == IF Len(posting_times) >= 2 THEN posting_times
                      ELSE <<posting_times[1], TimeStr(21, 0)>>
    IN  IF last_video_time = NoTime
        THEN LET found == FirstSlot(time_slots, 1, now, tz, now, now)
             IN  IF found # NoTime THEN found
                 ELSE next_local_slot(now + Day, time_slots[1], tz)
        ELSE LET found == FirstSlot(time_slots, 1, last_video_time, tz,
                                    last_video_time, now)
             IN  IF found # NoTime THEN found
                 ELSE next_local_slot(last_video_time + Day, time_slots[1], tz)

\* VideoScheduler.calculate_next_scheduled_time
calculate_next_scheduled_time(plan, series_posting_times, tz, last_video_time, now) ==
    LET posting_times == IF series_posting_times = <<>> THEN <<TimeStr(9, 0)>>
                         ELSE series_posting_times
    IN  CASE plan = "launch" ->
               SingleSlotNext(days_between("launch"), posting_times[1], tz,
                              last_video_time, now)
          [] plan = "grow" ->
               SingleSlotNext(1, posting_times[1], tz, last_video_time, now)
          [] plan = "scale" ->
               ScaleNext(posting_times, tz, last_video_time, now)
          [] OTHER -> now + Day

\* should_generate_now with the upload instant itself left out of the window
should_generate_now_open(scheduled_upload_time, now) ==
    /\ scheduled_upload_time - GENERATION_LEAD_TIME <= now
    /\ now < scheduled_upload_time

\* VideoScheduler.should_generate_now
should_generate_now(scheduled_upload_time, now) ==
    /\ scheduled_upload_time - GENERATION_LEAD_TIME <= now
    /\ now <= scheduled_upload_time

-----------------------------------------------------------------------------
(* Inputs of the calculator *)

Plans == {"launch", "grow", "scale"}

PostingTimesLists ==
    { <<>>,
      <<TimeStr(9, 0)>>,
      <<TimeStr(9, 0), TimeStr(21, 0)>>,
      <<TimeStr(21, 0), TimeStr(9, 0)>>,
      <<TimeStr(0, 30), TimeStr(0, 10)>> }

\* the times of day a series with this list can have been scheduled at
SlotTimes(posting_times) ==
    IF posting_times = <<>> THEN {TimeStr(9, 0), TimeStr(21, 0)}
    ELSE {posting_times[i] : i \in 1..Len(posting_times)} \cup
         (IF Len(posting_times) < 2 THEN {TimeStr(21, 0)} ELSE {})

\* the slots of the series on the days of the horizon
SlotsOf(posting_times, tz) ==
    { next_local_slot(d * Day + 12 * 3600, t, tz) :
        d \in 0..MaxDay, t \in SlotTimes(posting_times) }

\* the instants a call can be made at: every half hour of days 1..MaxDay
NowValues == { d * Day + k * 1800 : d \in 1..MaxDay, k \in 0..47 }

\* scheduled_upload_time - now, for the arguments should_generate_now is tried on
WindowOffsets == {-1, 0, 1, 1800, 5399, 5400, 5401, 7200}

CalcInit ==
    /\ calc_plan \in Plans
    /\ calc_times \in PostingTimesLists
    /\ calc_tz \in Zones
    /\ calc_now \in NowValues
    /\ calc_last \in {NoTime} \cup SlotsOf(calc_times, calc_tz)
    /\ calc_pc = "start"
    /\ calc_next = NoTime
    /\ calc_slot = NoTime
    /\ calc_should = FALSE

\* one call of calculate_next_scheduled_time(series, user, last_video_time)
CalculateNext ==
    /\ calc_pc = "start"
    /\ calc_next' = calculate_next_scheduled_time(calc_plan, calc_times, calc_tz,
                                                  calc_last, calc_now)
    /\ calc_pc' = "calculated"
    /\ UNCHANGED <<calc_plan, calc_times, calc_tz, calc_last, calc_now,
                   calc_slot, calc_should, upVars, schedVars, acctVars, env>>

\* one call of should_generate_now(scheduled_upload_time)
CheckWindow ==
    /\ calc_pc = "start"
    /\ \E x \in WindowOffsets :
          /\ calc_slot' = calc_now + x
          /\ calc_should' = should_generate_now(calc_now + x, calc_now)
    /\ calc_pc' = "window"
    /\ UNCHANGED <<calc_plan, calc_times, calc_tz, calc_last, calc_now, calc_next,
                   upVars, schedVars, acctVars, env>>

CalcNext == CalculateNext \/ CheckWindow

-----------------------------------------------------------------------------
(* Claims about the calculator, checked under SpecCalc *)

\* C1: for every plan, posting_times list, timezone, last_video_time and
\* now, calculate_next_scheduled_time returns an instant strictly greater
\* than now.
C1_NextStrictlyAfterNow ==
    calc_pc = "calculated" => calc_next > calc_now

\* C5: should_generate_now(slot) is true exactly when
\* slot - 1.5 hours <= now <= slot: true at now = slot - 1.5 h and at
\* now = slot, false one second before slot - 1.5 h and one second after slot.
C5_WindowExact ==
    calc_pc = "window" =>
        /\ calc_should <=> (calc_slot - 90 * 60 <= calc_now /\ calc_now <= calc_slot)
        /\ calc_now = calc_slot - 90 * 60 => calc_should
        /\ calc_now = calc_slot => calc_should
        /\ calc_now = calc_slot - 90 * 60 - 1 => ~calc_should
        /\ calc_now = calc_slot + 1 => ~calc_should

\* C5 witness: the call was made exactly at the upload instant and answered true
C5_Witness ==
    calc_pc = "window" /\ calc_now = calc_slot /\ calc_should

\* the wall clock of the series' zone at a UTC instant
LocalOf(utc, tz) == IF tz.valid THEN UtcToLocal(utc, tz) ELSE utc

LocalDate(utc, tz) == LocalOf(utc, tz) \div Day

LocalTimeOfDay(utc, tz) == LocalOf(utc, tz) % Day

\* seconds after local midnight of a configured "HH:MM"
SecondsOf(time_str) == time_str.hour * 3600 + time_str.minute * 60

\* the time launch and grow post at: posting_times[0], "09:00" by default
ConfiguredTime == IF calc_times = <<>> THEN TimeStr(9, 0) ELSE calc_times[1]

\* a launch or grow call whose last slot is at the configured local time and
\* which is made before the slot that follows it is due
SingleSlotChained ==
    /\ calc_pc = "calculated"
    /\ calc_plan \in {"launch", "grow"}
    /\ calc_last # NoTime
    /\ LocalTimeOfDay(calc_last, calc_tz) = SecondsOf(ConfiguredTime)
    /\ calc_now < local_to_utc((LocalDate(calc_last, calc_tz)
                                   + days_between(calc_plan)) * Day
                                + SecondsOf(ConfiguredTime), calc_tz)

\* C13: on launch and grow, a slot computed from the previous slot before the
\* following one is due is at the configured local time, exactly 2 (launch)
\* or 1 (grow) calendar days after the previous slot.
C13_ChainedSlotsApart ==
    SingleSlotChained =>
       /\ LocalTimeOfDay(calc_next, calc_tz) = SecondsOf(ConfiguredTime)
       /\ LocalDate(calc_next, calc_tz) - LocalDate(calc_last, calc_tz)
             = days_between(calc_plan)

\* the two times a scale series posts at
ScaleTimes ==
    IF Len(calc_times) >= 2 THEN {calc_times[1], calc_times[2]}
    ELSE IF calc_times = <<>> THEN {TimeStr(9, 0), TimeStr(21, 0)}
    ELSE {calc_times[1], TimeStr(21, 0)}

\* the instants of the two configured times on the local day of the previous
\* slot and on the two days after it
ScaleInstants ==
    { local_to_utc((LocalDate(calc_last, calc_tz) + k) * Day + SecondsOf(ts),
                   calc_tz) : k \in 0..2, ts \in ScaleTimes }

\* C14: on scale the slot computed from the previous slot, asked for no later
\* than that slot, is the next of the two configured local times after it, in
\* whatever order the two times are listed: two slots per local day.
C14_ScaleNextConfiguredTime ==
    (/\ calc_pc = "calculated"
     /\ calc_plan = "scale"
     /\ calc_last # NoTime
     /\ calc_now <= calc_last)
    => /\ calc_next \in ScaleInstants
       /\ calc_next > calc_last
       /\ \A t \in ScaleInstants : t > calc_last => calc_next <= t

\* the configured local time on the local day of now, k days later
PostingInstant(k) ==
    local_to_utc((LocalDate(calc_now, calc_tz) + k) * Day
                 + SecondsOf(ConfiguredTime), calc_tz)

\* C15: with no previous slot, launch and grow return today's local posting
\* time when it is strictly after now, and the same local time on the next
\* local day otherwise.
C15_FirstSlotTodayOrTomorrow ==
    (/\ calc_pc = "calculated"
     /\ calc_plan \in {"launch", "grow"}
     /\ calc_last = NoTime)
    => calc_next = IF PostingInstant(0) > calc_now THEN PostingInstant(0)
                   ELSE PostingInstant(1)

\* the times of day a slot of the plan can be at
PlanTimes == IF calc_plan = "scale" THEN ScaleTimes ELSE {ConfiguredTime}

\* C22: with a timezone that is no IANA zone the calculator still returns a
\* slot, and it is the slot it returns for UTC: the configured local time
\* read as a UTC time of day.
C22_InvalidZoneIsUTC ==
    (calc_pc = "calculated" /\ ~calc_tz.valid) =>
       /\ calc_next # NoTime
       /\ calc_next = calculate_next_scheduled_time(calc_plan, calc_times, ZoneUTC,
                                                    calc_last, calc_now)
       /\ \E ts \in PlanTimes : calc_next % Day = SecondsOf(ts)

\* a slot computed from a previous one for a series with an invalid zone
C22_Witness ==
    /\ calc_pc = "calculated"
    /\ ~calc_tz.valid
    /\ calc_last # NoTime
    /\ calc_times = <<TimeStr(9, 0)>>
    /\ calc_next > calc_now
    /\ calc_next % Day = 9 * 3600

\* C23: a call of the calculator for a series whose posting-times list is
\* empty ends in an error and returns no slot.
C23_EmptyTimesRejected ==
    (calc_pc = "calculated" /\ calc_times = <<>>) => calc_next = NoTime

-----------------------------------------------------------------------------
(* One video: generation, the upload requests and the publish orchestrator *)

\* longest platforms list of a call
MaxPlatforms == 2

\* upload requests the endpoint accepts for the video
MaxRequests == 1

\* db.commit() failures in the life of the video
MaxFaults == 1

Platforms == {"youtube", "instagram", "tiktok"}

PlatformLists == UNION { [1..n -> Platforms] : n \in 0..MaxPlatforms }

\* None in a platform id or url column
NoId == 0

\* None in a path column
NoPath == ""

\* the Video row as generate_scheduled_video / generate_video_for_series insert it
NewVideo ==
    [status |-> "generating",
     video_path |-> NoPath, thumbnail_path |-> NoPath, script_path |-> NoPath,
     platform_id |-> [p \in Platforms |-> NoId],
     platform_url |-> [p \in Platforms |-> NoId],
     platform_published_at |-> [p \in Platforms |-> NoTime]]

\* a PlatformConnection row; status "absent" stands for no row at all
Connection(status, expires_at) ==
    [status |-> status, access_token_expires_at |-> expires_at]

\* PlatformConnection.is_expired
is_expired(connection, utcnow) ==
    IF connection.access_token_expires_at = NoTime THEN FALSE
    ELSE utcnow > connection.access_token_expires_at

\* needs_refresh with the buffer taken the wrong way round
needs_refresh_late(connection, utcnow) ==
    IF connection.access_token_expires_at = NoTime THEN FALSE
    ELSE utcnow > connection.access_token_expires_at + 5 * 60

\* PlatformConnection.needs_refresh: buffer = timedelta(minutes=5)
needs_refresh(connection, utcnow) ==
    IF connection.access_token_expires_at = NoTime THEN FALSE
    ELSE utcnow > connection.access_token_expires_at - 5 * 60

\* ---- a Python dict as the sequence of its <<key, value>> items ----

DictKeys(d) == [i \in 1..Len(d) |-> d[i][1]]

DictHas(d, k) == \E i \in 1..Len(d) : d[i][1] = k

DictGet(d, k) == d[CHOOSE i \in 1..Len(d) : d[i][1] = k][2]

\* d[k] = v: a present key keeps its place
DictSet(d, k, v) ==
    IF DictHas(d, k)
    THEN [i \in 1..Len(d) |-> IF d[i][1] = k THEN <<k, v>> ELSE d[i]]
    ELSE Append(d, <<k, v>>)

\* [p for p, r in results.items() if keep(r)]
RECURSIVE DictKeysWhere(_, _)
DictKeysWhere(d, success) ==
    IF d = <<>> THEN <<>>
    ELSE (IF d[1][2].success = success THEN <<d[1][1]>> ELSE <<>>)
         \o DictKeysWhere(Tail(d), success)

\* ---- what the collaborators can answer ----

\* refresh_youtube_token / refresh_tiktok_token / refresh_instagram_token:
\*   "ok"        returns True
\*   "no_token"  returns False at once (no refresh_token stored)
\*   "rejected"  returns False after the platform answered with an error
\*   "raised"    raised inside; the except clause returns False
RefreshOutcomes(platform) ==
    IF platform = "instagram" THEN {"ok", "rejected", "raised"}
    ELSE IF platform = "tiktok" THEN {"ok", "no_token", "rejected", "raised"}
    ELSE {"ok", "no_token", "raised"}

\* connection.status as the refresh function leaves it
StatusAfterRefresh(platform, status, outcome) ==
    CASE outcome = "no_token" -> status
      [] outcome = "ok"       -> IF platform = "youtube" THEN status ELSE "active"
      [] outcome = "rejected" -> "expired"
      [] outcome = "raised"   -> IF platform = "youtube" THEN "expired" ELSE "error"

\* _upload_to_youtube / _upload_to_instagram / _upload_to_tiktok:
\*   "success"     {'success': True, id, url}
\*   "processing"  TikTok's {'success': True, 'video_id': publish_id} without a url
\*   "failure"     {'success': False, 'error': ...}
\*   "auth_failure" YouTube's failure on invalid_grant / invalid_client, which
\*                 also sets the connection's status to "expired"
\*   "raises"      the call raises (future.result timeout, a failing handler)
\* The Instagram engine answers a local file with NotImplementedError, caught
\* into a failure.
UploadOutcomes(platform) ==
    IF platform = "instagram" THEN {"failure", "raises"}
    ELSE IF platform = "tiktok" THEN {"success", "processing", "failure", "raises"}
    ELSE {"success", "failure", "auth_failure", "raises"}

\* what the engine of the platform answers under the configuration:
\* TikTokUploadEngine.upload_video returns {'success': False,
\* 'error_type': 'ConfigurationError'} when its credentials are unset
EngineOutcomes(configured, platform) ==
    IF platform = "tiktok" /\ "tiktok" \notin configured THEN {"failure"}
    ELSE UploadOutcomes(platform)

\* db.commit(): "ok", or it raises and the session either keeps the pending
\* attribute values or has expired them back to the committed row
CommitOutcomes(faults) ==
    IF faults < MaxFaults THEN {"ok", "fail_kept", "fail_expired"} ELSE {"ok"}

Result(success, error_type) == [success |-> success, error_type |-> error_type]

NoReturn == [returned |-> FALSE]

\* an entry of the call's log: a query, a refresh, an upload, a commit or
\* the rmtree, with what it answered and, for a connection, the expiry and
\* the status the row had when the call was made
Event(call, platform, outcome, expires_at, status) ==
    [call |-> call, platform |-> platform, outcome |-> outcome,
     expires_at |-> expires_at, status |-> status]

\* ---- state of the video before any task ran ----

VideoPath == "output/project/final_video.mp4"

ThumbnailPath == "output/project/thumbnail.png"

\* the PlatformConnection rows a user can have for one platform
ConnectionChoices(utcnow) ==
    { Connection("absent", NoTime),
      Connection("active", utcnow + 5 * 60),
      Connection("active", utcnow + 5 * 60 - 1),
      Connection("active", utcnow - 1) }

\* the platforms a call for the video can name
Targets(platforms) == {platforms[i] : i \in 1..Len(platforms)} \cup {"youtube"}

UpStart ==
    /\ clock = Day
    /\ series_platforms \in PlatformLists
    /\ connections \in [Platforms -> ConnectionChoices(Day)]
    \* a token that needs its refresh: for YouTube one inside the five-minute
    \* buffer, for the other platforms one past its expiry
    /\ \A p \in Platforms :
          connections[p].access_token_expires_at #
             (IF p = "youtube" THEN Day - 1 ELSE Day + 5 * 60 - 1)
    \* the rows of the other platforms are never read: left out
    /\ \A p \in Platforms \ Targets(series_platforms) :
          connections[p].status = "absent"
    /\ db_video = NewVideo
    /\ video_record = NewVideo
    /\ file_exists = FALSE
    /\ dir_exists = FALSE
    /\ posted = [p \in Platforms |-> 0]
    /\ gen_pc = "generating"
    /\ tasks = <<>>
    /\ requests = 0
    /\ up_pc = "idle"
    /\ up_caller = "none"
    /\ up_platforms = <<>>
    /\ up_idx = 1
    /\ up_results = <<>>
    /\ up_overall_success = FALSE
    /\ up_return = NoReturn
    /\ up_start = [record |-> NewVideo, row |-> NewVideo, faults |-> 0,
                   file |-> FALSE, connections |-> connections, posted |-> posted]
    /\ up_log = <<>>
    /\ up_faults = 0

\* .env holds the client credentials of every platform
UpInit == UpStart /\ env = Platforms

\* the publish part at rest, for the specifications that do not run it
PublishIdle ==
    /\ env = Platforms
    /\ series_platforms = <<>>
    /\ connections = [p \in Platforms |-> Connection("absent", NoTime)]
    /\ db_video = NewVideo
    /\ video_record = NewVideo
    /\ file_exists = FALSE
    /\ dir_exists = FALSE
    /\ posted = [p \in Platforms |-> 0]
    /\ gen_pc = "done"
    /\ tasks = <<>>
    /\ requests = 0
    /\ up_pc = "idle"
    /\ up_caller = "none"
    /\ up_platforms = <<>>
    /\ up_idx = 1
    /\ up_results = <<>>
    /\ up_overall_success = FALSE
    /\ up_return = NoReturn
    /\ up_start = [record |-> NewVideo, row |-> NewVideo, faults |-> 0,
                   file |-> FALSE, connections |-> connections, posted |-> posted]
    /\ up_log = <<>>
    /\ up_faults = 0

UpIdle == clock = 0 /\ PublishIdle

\* runs of run_scheduler_once that cron starts
MaxRuns == 2

\* the cron runs of the scheduler: none has started
RunIds == 1..MaxRuns

NoRuns ==
    [r \in RunIds |-> [pc |-> "off", queue |-> <<>>, row |-> 0, started |-> NoTime]]

\* the scheduler at rest, for the specifications that do not run it
SchedIdle ==
    /\ runs = NoRuns
    /\ jobs = 0
    /\ owner = [plan |-> "launch", is_admin |-> FALSE, series_purchased |-> 0,
                videos_generated_this_month |-> 0, usage_reset_at |-> NoTime]
    /\ series_rows = <<>>
    /\ video_rows = <<>>
    /\ sched_pc = "off"
    /\ sched_queue = <<>>
    /\ sched_log = <<>>

\* the calculator at rest, for the specifications that do not run it
CalcIdle ==
    /\ calc_plan = "launch"
    /\ calc_times = <<>>
    /\ calc_tz = ZoneUTC
    /\ calc_now = 0
    /\ calc_last = NoTime
    /\ calc_pc = "idle"
    /\ calc_next = NoTime
    /\ calc_slot = NoTime
    /\ calc_should = FALSE

callLocals == <<up_caller, up_platforms, up_idx, up_results, up_overall_success,
                up_return, up_start, up_log, up_faults>>

\* ---- process_video_generation_db up to the auto-upload ----

\* generator.generate_video returned: the row becomes ready and is committed
GenerationSucceeds ==
    /\ gen_pc = "generating"
    /\ LET ready == [NewVideo EXCEPT !.status = "ready",
                                     !.video_path = VideoPath,
                                     !.thumbnail_path = ThumbnailPath]
       IN  /\ db_video' = ready
           /\ video_record' = ready
    /\ file_exists' = TRUE
    /\ dir_exists' = TRUE
    /\ gen_pc' = "generated"
    /\ UNCHANGED <<clock, series_platforms, connections, posted, tasks, requests,
                   up_pc, callLocals, calcVars, schedVars, acctVars, env>>

\* generation raised: except clause, video.status = "failed"
GenerationFails ==
    /\ gen_pc = "generating"
    /\ db_video' = [db_video EXCEPT !.status = "failed"]
    /\ video_record' = [db_video EXCEPT !.status = "failed"]
    /\ gen_pc' = "done"
    /\ UNCHANGED <<clock, series_platforms, connections, file_exists, dir_exists,
                   posted, tasks, requests, up_pc, callLocals, calcVars, schedVars, acctVars,
                   env>>

\* ---- upload_to_platforms ----

\* the video file check with os.path.exists left out
VideoFileMissing_pathonly(record, exists) ==
    record.video_path = NoPath

\* if not video_path or not os.path.exists(video_path)
VideoFileMissing(record, exists) ==
    record.video_path = NoPath \/ ~exists

\* entry of upload_to_platforms: locals, then the video file check
BeginCall(caller, platforms, record) ==
    /\ up_caller' = caller
    /\ up_platforms' = platforms
    /\ video_record' = record
    /\ up_start' = [record |-> record, row |-> db_video, faults |-> up_faults,
                    file |-> file_exists, connections |-> connections,
                    posted |-> posted]
    /\ up_idx' = 1
    /\ up_results' = <<>>
    /\ up_overall_success' = FALSE
    /\ up_log' = <<>>
    /\ up_faults' = up_faults
    /\ IF VideoFileMissing(record, file_exists)
       THEN /\ up_pc' = "returned"
            /\ up_return' = [returned |-> TRUE, success |-> FALSE,
                             error |-> "Video file not found", results |-> <<>>]
       ELSE /\ up_pc' = "loop"
            /\ up_return' = NoReturn

\* PlatformUploadOrchestrator(): YouTubeUploadEngine() raises ValueError when
\* YOUTUBE_CLIENT_ID or YOUTUBE_CLIENT_SECRET is unset; TikTokUploadEngine()
\* only logs a warning, InstagramUploadEngine() reads no credentials
OrchestratorBuilt(configured) == "youtube" \in configured

\* the rows the outer except clause of process_video_generation_db can leave:
\* video.status = "failed" committed, or the row as it was when the commit of
\* the job or of the video raised in its turn
OuterExceptRows(row) == {[row EXCEPT !.status = "failed"], row}

\* a db.commit() of the caller: "ok" or "fail"
CallerCommitOutcomes(may_fail) == IF may_fail THEN {"ok", "fail"} ELSE {"ok"}

\* process_video_generation_db after the ready row is committed: the commits
\* of the job result and of the series stats, then
\* if series.platforms and len(series.platforms) > 0: the auto-upload
AutoUploadBegin ==
    /\ gen_pc = "generated"
    /\ up_pc = "idle"
    /\ \E stats \in CallerCommitOutcomes(up_faults < MaxFaults) :
          IF stats = "fail"
          THEN \* except Exception as e: of process_video_generation_db
               /\ gen_pc' = "done"
               /\ \E row \in OuterExceptRows(db_video) :
                     /\ db_video' = row
                     /\ video_record' = row
               /\ up_faults' = up_faults + 1
               /\ UNCHANGED <<up_pc, up_caller, up_platforms, up_idx, up_results,
                              up_overall_success, up_return, up_start, up_log>>
          ELSE IF series_platforms = <<>>
          THEN /\ gen_pc' = "done"
               /\ UNCHANGED <<db_video, video_record, up_pc, callLocals>>
          ELSE IF ~OrchestratorBuilt(env)
          THEN \* except Exception as upload_error: job.result['upload_error']
               \* is set and committed (the commit succeeding)
               /\ gen_pc' = "done"
               /\ UNCHANGED <<db_video, video_record, up_pc, callLocals>>
          ELSE /\ gen_pc' = "uploading"
               /\ BeginCall("auto", series_platforms, db_video)
               /\ UNCHANGED db_video
    /\ UNCHANGED <<clock, series_platforms, connections, file_exists,
                   dir_exists, posted, tasks, requests, calcVars, schedVars, acctVars,
                   env>>

\* the platforms arguments the endpoint is tried with (<<>> is None)
RequestedLists == {<<>>, <<"youtube">>}

\* POST /api/video/{video_id}/upload
upload_video_to_platforms ==
    /\ requests < MaxRequests
    /\ db_video.status = "ready"
    /\ \E platforms \in RequestedLists :
          LET target_platforms == IF platforms # <<>> THEN platforms
                                  ELSE series_platforms
          IN  /\ target_platforms # <<>>
              /\ tasks' = Append(tasks, target_platforms)
    /\ requests' = requests + 1
    /\ UNCHANGED <<clock, series_platforms, connections, db_video, video_record,
                   file_exists, dir_exists, posted, gen_pc, up_pc, callLocals,
                   calcVars, schedVars, acctVars, env>>

\* process_platform_upload, up to its call of upload_to_platforms
process_platform_upload ==
    /\ tasks # <<>>
    /\ up_pc = "idle"
    /\ tasks' = Tail(tasks)
    /\ IF OrchestratorBuilt(env)
       THEN BeginCall("manual", Head(tasks), db_video)
       ELSE \* except Exception as e: job.status = "failed", db.commit()
            UNCHANGED <<video_record, up_pc, callLocals>>
    /\ UNCHANGED <<clock, series_platforms, connections, db_video, file_exists,
                   dir_exists, posted, gen_pc, requests, calcVars, schedVars, acctVars,
                   env>>

\* the refresh functions that end in db.commit()
RefreshCommits(platform, outcome) ==
    \/ outcome \in {"rejected", "raised"}
    \/ outcome = "ok" /\ platform # "youtube"

\* the connection row after _refresh_token(connection, platform, db)
ConnectionAfterRefresh(platform, connection, outcome, utcnow) ==
    [status |-> StatusAfterRefresh(platform, connection.status, outcome),
     access_token_expires_at |->
        IF outcome = "ok" /\ platform # "youtube" THEN utcnow + Day
        ELSE connection.access_token_expires_at]

\* the connection row after the upload engine returned
ConnectionAfterUpload(connection, upload) ==
    IF upload = "auth_failure" THEN [connection EXCEPT !.status = "expired"]
    ELSE connection

\* video_record.<platform>_id / _url / _published_at = ... for a success result
WithPlatformFields(record, platform, id, url, utcnow) ==
    [record EXCEPT !.platform_id[platform] = id,
                   !.platform_url[platform] = url,
                   !.platform_published_at[platform] = utcnow]

\* the stored row if the platform's fields were only committed in one batch
\* after the loop
RowAfterCommit_batched(record, row) == row

\* db.commit() right after a successful upload: the stored row becomes the
\* session's record
RowAfterCommit(record, row) == record

\* if connection.needs_refresh or connection.is_expired
RefreshDue(connection, utcnow) ==
    needs_refresh(connection, utcnow) \/ is_expired(connection, utcnow)

\* the loop stopped at the first platform that is not connected
AfterNoConnection_break(idx, count) == count + 1

\* continue: on to the next platform of the list
AfterNoConnection(idx, count) == idx + 1

\* one iteration of "for platform in platforms", its except clause included
LoopStep ==
    /\ up_pc = "loop"
    /\ up_idx <= Len(up_platforms)
    /\ LET platform   == up_platforms[up_idx]
           connection == connections[platform]
       IN  IF connection.status # "active"
           THEN \* no active connection: recorded, continue
                /\ up_results' = DictSet(up_results, platform,
                                         Result(FALSE, "NoConnection"))
                /\ up_log' = Append(up_log, Event("query", platform, "none",
                                                  NoTime, connection.status))
                /\ up_idx' = AfterNoConnection(up_idx, Len(up_platforms))
                /\ UNCHANGED <<connections, video_record, db_video, posted,
                               up_overall_success, up_faults>>
           ELSE \E refresh \in (IF RefreshDue(connection, clock)
                                THEN RefreshOutcomes(platform) ELSE {"none"}) :
                \E flushed \in (IF refresh # "none"
                                   /\ RefreshCommits(platform, refresh)
                                   /\ video_record # db_video
                                THEN {TRUE, FALSE} ELSE {FALSE}) :
                \E upload \in EngineOutcomes(env, platform) :
                \E commit \in (IF upload \in {"success", "processing"}
                               THEN CommitOutcomes(up_faults) ELSE {"ok"}) :
                LET refreshed == IF refresh = "none" THEN connection
                                 ELSE ConnectionAfterRefresh(platform, connection,
                                                             refresh, clock)
                    row1      == IF flushed THEN video_record ELSE db_video
                    succeeded == upload \in {"success", "processing"}
                    id        == posted[platform] + 1
                    url       == IF upload = "success" THEN id ELSE NoId
                    written   == WithPlatformFields(video_record, platform,
                                                    id, url, clock)
                IN  /\ connections' =
                         [connections EXCEPT
                            ![platform] = ConnectionAfterUpload(refreshed, upload)]
                    /\ up_idx' = up_idx + 1
                    /\ up_log' =
                         up_log
                         \o <<Event("query", platform, "found",
                                    connection.access_token_expires_at,
                                    connection.status)>>
                         \o (IF refresh = "none" THEN <<>>
                             ELSE <<Event("refresh", platform, refresh, NoTime,
                                          refreshed.status)>>)
                         \o <<Event("upload", platform, upload, NoTime,
                                    refreshed.status)>>
                         \o (IF succeeded
                             THEN <<Event("commit", platform, commit, NoTime, "")>>
                             ELSE <<>>)
                    /\ posted' = IF succeeded
                                 THEN [posted EXCEPT ![platform] = id] ELSE posted
                    /\ up_overall_success' = (up_overall_success \/ succeeded)
                    /\ IF ~succeeded
                       THEN /\ up_results' =
                                 DictSet(up_results, platform,
                                         Result(FALSE, IF upload = "raises"
                                                       THEN "Exception"
                                                       ELSE "UploadError"))
                            /\ video_record' = video_record
                            /\ db_video' = row1
                            /\ up_faults' = up_faults
                       ELSE IF commit = "ok"
                       THEN /\ up_results' = DictSet(up_results, platform,
                                                     Result(TRUE, ""))
                            /\ video_record' = written
                            /\ db_video' = RowAfterCommit(written, row1)
                            /\ up_faults' = up_faults
                       ELSE \* db.commit() raised inside the try: except clause
                            /\ up_results' = DictSet(up_results, platform,
                                                     Result(FALSE, "Exception"))
                            /\ video_record' = IF commit = "fail_kept"
                                               THEN written ELSE row1
                            /\ db_video' = row1
                            /\ up_faults' = up_faults + 1
    /\ UNCHANGED <<clock, series_platforms, file_exists, dir_exists, gen_pc,
                   tasks, requests, up_pc, up_caller, up_platforms, up_return,
                   up_start, calcVars, schedVars, acctVars, env>>

\* what shutil.rmtree(project_dir) can leave behind
CleanupOutcomes == {"deleted", "raised_nothing_deleted", "raised_file_deleted"}

\* _cleanup_temp_files with the exception of rmtree let through to the caller
CleanupCaught_not == FALSE

\* _cleanup_temp_files: except Exception -- don't fail upload if cleanup fails
CleanupCaught == TRUE

\* the status update with a failed status forced when nothing succeeded
StatusAfterLoop_forced(record, overall_success) ==
    IF overall_success THEN [record EXCEPT !.status = "published"]
    ELSE [record EXCEPT !.status = "failed"]

\* if overall_success: video_record.status = "published"
StatusAfterLoop(record, overall_success) ==
    IF overall_success THEN [record EXCEPT !.status = "published"]
    ELSE record

\* the record if the cleanup wiped the platform urls along with the paths
ClearedPaths_and_urls(record) ==
    [record EXCEPT !.video_path = NoPath,
                   !.thumbnail_path = NoPath,
                   !.script_path = NoPath,
                   !.platform_url = [p \in Platforms |-> NoId]]

\* video_record.video_path = None, thumbnail_path = None, script_path = None
ClearedPaths(record) ==
    [record EXCEPT !.video_path = NoPath,
                   !.thumbnail_path = NoPath,
                   !.script_path = NoPath]

\* the rest of upload_to_platforms after the loop
PostLoop ==
    /\ up_pc = "loop"
    /\ up_idx > Len(up_platforms)
    /\ LET published == StatusAfterLoop(video_record, up_overall_success)
           cleans    == up_overall_success /\ published.video_path # NoPath
                        /\ dir_exists
       IN  \E cleanup \in (IF cleans THEN CleanupOutcomes ELSE {"skipped"}) :
           \E commit \in CommitOutcomes(up_faults) :
           LET cleaned == IF cleanup = "deleted"
                          THEN ClearedPaths(published)
                          ELSE published
               thrown  == cleanup \in {"raised_nothing_deleted", "raised_file_deleted"}
                          /\ ~CleanupCaught
           IN  /\ up_log' = IF cleanup = "skipped" THEN up_log
                             ELSE Append(up_log,
                                         Event("rmtree", "", cleanup, NoTime, ""))
               /\ dir_exists' = IF cleanup = "deleted" THEN FALSE ELSE dir_exists
               /\ file_exists' = IF cleanup \in {"deleted", "raised_file_deleted"}
                                 THEN FALSE ELSE file_exists
               /\ IF thrown
                  THEN /\ commit = "ok"
                       /\ video_record' = cleaned
                       /\ db_video' = db_video
                       /\ up_faults' = up_faults
                       /\ up_pc' = "escaped"
                       /\ up_return' = NoReturn
                  ELSE IF commit = "ok"
                  THEN /\ video_record' = cleaned
                       /\ db_video' = cleaned
                       /\ up_faults' = up_faults
                       /\ up_pc' = "returned"
                       /\ up_return' =
                            [returned |-> TRUE,
                             success |-> up_overall_success,
                             error |-> "",
                             platforms_attempted |-> DictKeys(up_results),
                             platforms_succeeded |-> DictKeysWhere(up_results, TRUE),
                             platforms_failed |-> DictKeysWhere(up_results, FALSE),
                             results |-> up_results]
                  ELSE \* the last db.commit() raised: nothing catches it here
                       /\ video_record' = IF commit = "fail_kept"
                                          THEN cleaned ELSE db_video
                       /\ db_video' = db_video
                       /\ up_faults' = up_faults + 1
                       /\ up_pc' = "escaped"
                       /\ up_return' = NoReturn
    /\ UNCHANGED <<clock, series_platforms, connections, posted, gen_pc, tasks,
                   requests, up_caller, up_platforms, up_idx, up_results,
                   up_overall_success, up_start, calcVars, schedVars, acctVars,
                   env>>

\* upload_results['platforms_succeeded'] raises KeyError on the dict returned
\* for a missing video file
ResultsUnreadable(ret) == ret.returned /\ ret.error # ""

\* the caller after upload_to_platforms returned or raised, to the end of the
\* background task.  process_video_generation_db: the log line and the commit
\* of the job result; on any exception the inner except clause and its
\* commit; if that raises too, the outer except clause.
\* process_platform_upload: the commit of the job, on any exception the
\* commit of the except clause; it never assigns video.status.
CallerResume ==
    /\ up_pc \in {"returned", "escaped"}
    /\ up_pc' = "idle"
    /\ gen_pc' = IF up_caller = "auto" THEN "done" ELSE gen_pc
    /\ LET straight == up_pc = "returned"
                        /\ ~(up_caller = "auto" /\ ResultsUnreadable(up_return))
       IN  \E first \in (IF straight
                          THEN CallerCommitOutcomes(up_faults < MaxFaults)
                          ELSE {"skipped"}) :
           \E second \in (IF first = "ok" THEN {"skipped"}
                           ELSE CallerCommitOutcomes(\/ up_faults < MaxFaults
                                                     \/ first = "fail"
                                                     \/ up_faults > up_start.faults)) :
              /\ up_faults' = IF first = "fail" \/ second = "fail"
                               THEN (IF up_faults < MaxFaults THEN up_faults + 1
                                     ELSE up_faults)
                               ELSE up_faults
              /\ IF second # "fail"
                 THEN \* a commit went through: pending attributes are stored
                      /\ db_video' = video_record
                      /\ video_record' = video_record
                 ELSE IF up_caller = "auto"
                 THEN \E row \in OuterExceptRows(db_video) :
                         /\ db_video' = row
                         /\ video_record' = row
                 ELSE /\ db_video' = db_video
                      /\ video_record' = db_video
    /\ UNCHANGED <<clock, series_platforms, connections, file_exists, dir_exists,
                   posted, tasks, requests, up_caller, up_platforms, up_idx,
                   up_results, up_overall_success, up_return, up_start, up_log,
                   calcVars, schedVars, acctVars, env>>

UpNext ==
    \/ GenerationSucceeds
    \/ GenerationFails
    \/ AutoUploadBegin
    \/ upload_video_to_platforms
    \/ process_platform_upload
    \/ LoopStep
    \/ PostLoop
    \/ CallerResume

\* a video about to be generated; no scheduler, no calculator call
UploadInit == UpInit /\ CalcIdle /\ SchedIdle

SpecUpload == UploadInit /\ [][UpNext]_vars

\* ---- reading the log of the current call ----

CallOver == up_pc \in {"returned", "escaped"}

\* the call found its video file and went into the loop
FilePresent == up_start.record.video_path # NoPath /\ up_start.file

\* no db.commit() raised during the call
NoCommitFault == up_faults = up_start.faults

LogOf(call, platform) ==
    {i \in 1..Len(up_log) : up_log[i].call = call /\ up_log[i].platform = platform}

\* an upload for the platform answered success
Won(platform) ==
    \E i \in LogOf("upload", platform) :
       up_log[i].outcome \in {"success", "processing"}

\* the answer of the last upload for the platform that answered success
LastWin(platform) ==
    LET wins == {i \in LogOf("upload", platform) :
                    up_log[i].outcome \in {"success", "processing"}}
    IN  up_log[CHOOSE i \in wins : \A j \in wins : j <= i].outcome

\* the last attempt for the platform in the call failed
LastFailed(platform) ==
    LET tries == LogOf("query", platform) \cup LogOf("upload", platform)
        last  == CHOOSE i \in tries : \A j \in tries : j <= i
    IN  tries # {} /\ up_log[last].outcome \in {"none", "failure", "auth_failure",
                                                "raises"}

\* the platforms of the connection queries, in order
Queried == LET queries == SelectSeq(up_log, LAMBDA e : e.call = "query")
           IN  [i \in 1..Len(queries) |-> queries[i].platform]

SameFields(a, b, platform) ==
    /\ a.platform_id[platform] = b.platform_id[platform]
    /\ a.platform_url[platform] = b.platform_url[platform]
    /\ a.platform_published_at[platform] = b.platform_published_at[platform]

\* what C2 says of every platform but the url of a succeeding one
IndependentButUrl ==
    /\ up_pc = "returned"
    /\ Queried = up_platforms
    /\ \A p \in Platforms :
          /\ LogOf("query", p) # {} => DictHas(up_return.results, p)
          /\ LastFailed(p) => ~DictGet(up_return.results, p).success
          /\ (LogOf("query", p) # {} /\ ~LastFailed(p))
                => DictGet(up_return.results, p).success
          /\ ~Won(p) => /\ SameFields(video_record, up_start.record, p)
                        /\ SameFields(db_video, up_start.row, p)
          /\ Won(p) => /\ video_record.platform_id[p] # NoId
                       /\ video_record.platform_published_at[p] # NoTime
                       /\ SameFields(db_video, video_record, p)

C3_SuccessIffSucceeded ==
    (up_pc = "returned" /\ up_return.error = "") =>
        (up_return.success <=> up_return.platforms_succeeded # <<>>)

\* C6: when no upload of the call succeeds (each platform fails or is not
\* connected) the result's success is false and the video's status, its path
\* fields and all its platform fields are what they were before the call.
C6_NothingSucceeded ==
    (CallOver /\ FilePresent /\ \A p \in Platforms : ~Won(p)) =>
        /\ video_record = up_start.record
        /\ db_video = up_start.row
        /\ up_pc = "returned" =>
              /\ up_return.success = FALSE
              /\ up_return.platforms_succeeded = <<>>

\* a returned call in which one platform was not connected and the upload of
\* another one failed
C6_Witness ==
    /\ up_pc = "returned"
    /\ FilePresent
    /\ \A p \in Platforms : ~Won(p)
    /\ \E i \in 1..Len(up_log) : up_log[i].outcome = "none"
    /\ \E i \in 1..Len(up_log) :
          up_log[i].outcome \in {"failure", "auth_failure", "raises"}
    /\ up_start.record.status = "ready"

\* the rmtree of the call raised
CleanupRaised ==
    \E i \in 1..Len(up_log) :
       /\ up_log[i].call = "rmtree"
       /\ up_log[i].outcome \in {"raised_nothing_deleted", "raised_file_deleted"}

\* C7: with at least one platform succeeded and the cleanup raising, the call
\* still returns, with success true, the status published and the platform
\* fields as the loop wrote them (commits going through).
C7_CleanupFailureSwallowed ==
    (CallOver /\ CleanupRaised /\ NoCommitFault) =>
        /\ up_pc = "returned"
        /\ up_return.success = TRUE
        /\ video_record.status = "published"
        /\ db_video = video_record
        /\ \A p \in Platforms :
              IF Won(p)
              THEN /\ video_record.platform_id[p] = posted[p]
                   /\ video_record.platform_published_at[p] = clock
              ELSE SameFields(video_record, up_start.record, p)

C7_Witness ==
    /\ up_pc = "returned"
    /\ CleanupRaised
    /\ NoCommitFault
    /\ video_record.status = "published"
    /\ video_record.video_path = VideoPath

\* C8: a call for a video whose video_path is unset or names a file that is
\* not on disk returns success false with the error 'Video file not found';
\* no connection is queried, nothing is uploaded, and the video record, the
\* connections and the platforms are left as they were.
C8_MissingFile ==
    ((up_pc \in {"loop", "returned", "escaped"})
        /\ (up_start.record.video_path = NoPath \/ ~up_start.file)) =>
        /\ up_pc = "returned"
        /\ up_return.success = FALSE
        /\ up_return.error = "Video file not found"
        /\ up_log = <<>>
        /\ video_record = up_start.record
        /\ db_video = up_start.row
        /\ connections = up_start.connections
        /\ posted = up_start.posted

\* a call returned for a record whose path names a file that is gone
C8_Witness ==
    /\ up_pc = "returned"
    /\ up_start.record.video_path = VideoPath
    /\ ~up_start.file
    /\ up_return.error = "Video file not found"

\* C9: a call of upload_to_platforms queries a connection or uploads only
\* for a video whose status is "ready" -- from the endpoint's task and from
\* the auto-upload alike.
C9_OnlyReadyIsUploaded ==
    up_log # <<>> => up_start.record.status = "ready"

\* C10: for a connection resolved active whose token has expired or expires
\* in less than five minutes, the refresh is attempted right after the query
\* and before the upload, and whatever the refresh answers the upload is
\* made, once.
C10_RefreshThenOneUpload ==
    \A i \in 1..Len(up_log) :
       (/\ up_log[i].call = "query"
        /\ up_log[i].outcome = "found"
        /\ up_log[i].expires_at # NoTime
        /\ up_log[i].expires_at - clock < 5 * 60) =>
           /\ i + 2 <= Len(up_log)
           /\ up_log[i + 1].call = "refresh"
           /\ up_log[i + 1].platform = up_log[i].platform
           /\ up_log[i + 2].call = "upload"
           /\ up_log[i + 2].platform = up_log[i].platform
           /\ i + 3 <= Len(up_log) => up_log[i + 3].call # "upload"

\* C11: every upload call of the orchestrator is made with a connection
\* whose status is "active" at that moment, a refresh attempt for the
\* connection having run or not.
C11_UploadOnlyWhenActive ==
    \A i \in 1..Len(up_log) :
       up_log[i].call = "upload" => up_log[i].status = "active"

\* the platform's upload answered success and the commit that follows it in
\* the loop went through
CommittedWin(platform) ==
    \E i \in LogOf("upload", platform) :
       /\ up_log[i].outcome \in {"success", "processing"}
       /\ i < Len(up_log)
       /\ up_log[i + 1].call = "commit"
       /\ up_log[i + 1].outcome = "ok"

\* C12: once a platform's upload succeeded and its commit went through, the
\* platform's id and published-at time (and the url the platform returned)
\* are in the stored video row, already while the loop is at the next
\* platform and whatever happens to the platforms after it.
C12_CommittedBeforeNext ==
    \A p \in Platforms :
       CommittedWin(p) =>
          /\ db_video.platform_id[p] # NoId
          /\ db_video.platform_published_at[p] # NoTime
          /\ ((\A i \in LogOf("upload", p) : up_log[i].outcome # "processing")
                 => db_video.platform_url[p] # NoId)

\* the first platform's fields are stored and the platform after it failed
C12_Witness ==
    /\ up_pc = "loop"
    /\ up_idx = 3
    /\ up_platforms[1] # up_platforms[2]
    /\ CommittedWin(up_platforms[1])
    /\ LastFailed(up_platforms[2])
    /\ up_log[Len(up_log)].outcome \in {"failure", "auth_failure", "raises"}
    /\ db_video.platform_id[up_platforms[1]] # NoId
    /\ db_video.platform_id[up_platforms[2]] = NoId

\* C16: however often publishing is run for a video, each platform receives
\* at most one successful upload, so a platform that already succeeded is
\* never uploaded to again and its stored id is never replaced.
C16_AtMostOneUploadPerPlatform ==
    \A p \in Platforms : posted[p] <= 1

\* C17: the stored status of a video only ever moves generating -> ready,
\* generating -> failed and ready -> published; nothing that happens after
\* generation moves it to failed, and published is final.
C17_StatusTransitions ==
    [][db_video'.status # db_video.status =>
          <<db_video.status, db_video'.status>> \in
             {<<"generating", "ready">>, <<"generating", "failed">>,
              <<"ready", "published">>}]_vars

\* C26: of two upload tasks for one video (a manual request accepted while
\* the video was ready, racing the automatic upload), the later one never
\* uploads to a platform the earlier one has uploaded to.
C26_LaterTaskDoesNotUploadAgain ==
    up_caller = "manual" =>
       \A p \in Platforms :
          up_start.posted[p] >= 1 => posted[p] = up_start.posted[p]

\* the rmtree of the call deleted the project directory
CleanupDone ==
    /\ up_log # <<>>
    /\ up_log[Len(up_log)].call = "rmtree"
    /\ up_log[Len(up_log)].outcome = "deleted"

\* C21: the step that ends a call in which a platform succeeded and the
\* cleanup went through leaves no project directory, video_path,
\* thumbnail_path and script_path unset, and the id, url and published-at
\* time of every platform as the loop left them.
C21_CleanupFrame ==
    [][(up_pc = "loop" /\ up_pc' = "returned" /\ CleanupDone') =>
          /\ up_overall_success
          /\ ~dir_exists'
          /\ ~file_exists'
          /\ video_record'.video_path = NoPath
          /\ video_record'.thumbnail_path = NoPath
          /\ video_record'.script_path = NoPath
          /\ db_video' = video_record'
          /\ \A p \in Platforms : SameFields(video_record', video_record, p)]_vars

\* a call that published to a platform, with a url, and cleaned up
C21_Witness ==
    /\ up_pc = "returned"
    /\ CleanupDone
    /\ ~dir_exists
    /\ video_record.video_path = NoPath
    /\ \E p \in Platforms : /\ Won(p)
                             /\ video_record.platform_id[p] # NoId
                             /\ video_record.platform_url[p] # NoId

\* a refresh that raised, for a token not yet expired, followed by the upload
C10_Witness ==
    \E i \in 1..Len(up_log) :
       /\ up_log[i].call = "query"
       /\ up_log[i].expires_at = clock + 5 * 60 - 1
       /\ i + 2 <= Len(up_log)
       /\ up_log[i + 1].call = "refresh"
       /\ up_log[i + 1].outcome = "raised"
       /\ up_log[i + 2].call = "upload"
       /\ up_log[i + 2].outcome = "success"

-----------------------------------------------------------------------------
(* The scheduler: cycles over the active series of one owner *)

\* Video rows the scheduler inserts at most
MaxVideos == 3

\* Series rows of the owner
MaxSeries == 2

\* half hours after midnight the service can be started at
StartSlots == 7

\* the scheduler is followed from day 1 to the end of day SchedDays - 1: two days
SchedDays == 3

\* hourly cycles looked ahead for a series that a cycle left out: three days
HorizonHours == 72

SeriesIds == 1..MaxSeries

\* User.plan_limits["videos_per_month"]
videos_per_month(user) ==
    IF user.is_admin THEN 999999
    ELSE CASE user.plan = "launch" -> 12 * MaxOf(1, user.series_purchased)
           [] user.plan = "grow"   -> 30 * MaxOf(1, user.series_purchased)
           [] user.plan = "scale"  -> 60 * MaxOf(1, user.series_purchased)
           [] OTHER                -> 0

\* User.can_generate_video
can_generate_video(user) ==
    \/ user.is_admin
    \/ user.videos_generated_this_month < videos_per_month(user)

\* _start_of_current_month(): the months of the horizon have 30 days
MonthStart(utcnow) == (utcnow \div (30 * Day)) * (30 * Day)

\* User.check_monthly_reset: the user row it leaves
check_monthly_reset(user, utcnow) ==
    IF user.usage_reset_at = NoTime \/ user.usage_reset_at < MonthStart(utcnow)
    THEN [user EXCEPT !.videos_generated_this_month = 0,
                      !.usage_reset_at = MonthStart(utcnow)]
    ELSE user

\* the Job rows of the current month, one for each generation the counter
\* of the user has counted
JobsOfMonth(user, utcnow) ==
    IF user.usage_reset_at = MonthStart(utcnow)
    THEN user.videos_generated_this_month ELSE 0

Series(status, posting_times, tz) ==
    [status |-> status, posting_times |-> posting_times, timezone |-> tz,
     videos_generated |-> 0]

\* Video(series_id=..., status="generating", scheduled_for=...)
Video(series_id, status, scheduled_for) ==
    [series_id |-> series_id, status |-> status, scheduled_for |-> scheduled_for]

\* filter(series_id, scheduled_for.isnot(None)).order_by(scheduled_for.desc())
\* .first(), then last_video.scheduled_for if last_video else None
last_video_time(videos, series_id) ==
    LET times == {videos[i].scheduled_for : i \in
                    {k \in 1..Len(videos) : /\ videos[k].series_id = series_id
                                            /\ videos[k].scheduled_for # NoTime}}
    IN  IF times = {} THEN NoTime
        ELSE CHOOSE t \in times : \A x \in times : x <= t

\* the duplicate guard taken out
existing_never(videos, series_id, next_upload_time) == FALSE

\* the duplicate guard: a video of the series for this slot that is
\* generating, ready or published
existing(videos, series_id, next_upload_time) ==
    \E i \in 1..Len(videos) :
       /\ videos[i].series_id = series_id
       /\ videos[i].scheduled_for = next_upload_time
       /\ videos[i].status \in {"generating", "ready", "published"}

\* the body of "for series in series_list": what is decided for one series
Decide(series_id, user, rows, videos, utcnow) ==
    LET series == rows[series_id]
        next_upload_time ==
            calculate_next_scheduled_time(user.plan, series.posting_times,
                                          series.timezone,
                                          last_video_time(videos, series_id),
                                          utcnow)
    IN  IF ~can_generate_video(user)
        THEN [series_id |-> series_id, scheduled_upload_time |-> NoTime,
              decision |-> "limit"]
        ELSE [series_id |-> series_id, scheduled_upload_time |-> next_upload_time,
              decision |-> IF existing(videos, series_id, next_upload_time)
                           THEN "exists"
                           ELSE IF should_generate_now(next_upload_time, utcnow)
                           THEN "generate" ELSE "wait"]

\* db.query(Series).filter(Series.status == "active").all(), in id order
ActiveIds(rows) ==
    SelectSeq([i \in 1..Len(rows) |-> i], LAMBDA i : rows[i].status = "active")

\* what the owner's counter and reset stamp can be: unused, used up this
\* month, used up last month
OwnerRows ==
    { [plan |-> plan, is_admin |-> FALSE, series_purchased |-> MaxSeries,
       videos_generated_this_month |-> usage[1], usage_reset_at |-> usage[2]] :
        plan \in Plans,
        usage \in {<<0, 0>>, <<999, 0>>, <<999, NoTime>>} }

SchedPostingTimes == { <<TimeStr(9, 0)>>, <<TimeStr(0, 30), TimeStr(0, 10)>> }

SchedZones == {ZoneUTC, ZoneNewYork}

SeriesChoices ==
    { Series(status, posting_times, tz) :
        status \in {"active", "paused"},
        posting_times \in SchedPostingTimes,
        tz \in SchedZones }

SchedInit ==
    /\ clock = Day
    /\ owner \in OwnerRows
    /\ series_rows \in [SeriesIds -> SeriesChoices]
    /\ series_rows[1].status = "active"
    \* the owner's other series post at the same times of day
    /\ \A id \in SeriesIds :
          /\ series_rows[id].posting_times = series_rows[1].posting_times
          /\ series_rows[id].timezone = series_rows[1].timezone
    /\ video_rows = <<>>
    /\ sched_pc = "idle"
    /\ sched_queue = <<>>
    /\ sched_log = <<>>
    /\ runs = NoRuns
    /\ jobs = JobsOfMonth(owner, clock)

\* time passes while the scheduler sleeps and while a video is generated
Tick ==
    /\ sched_pc \in {"idle", "generating"}
    /\ clock + 60 * 60 <= SchedDays * Day
    /\ clock' = clock + 60 * 60
    /\ UNCHANGED <<series_platforms, connections, db_video, video_record,
                   file_exists, dir_exists, posted, gen_pc, tasks, requests,
                   up_pc, callLocals, calcVars, schedVars, acctVars, env>>

\* the body of get_videos_to_generate run at utcnow: the owner's monthly
\* reset, and for each active series what the loop decides
PollAt(utcnow) ==
    LET ids  == ActiveIds(series_rows)
        user == IF ids = <<>> THEN owner
                ELSE check_monthly_reset(owner, utcnow)
        log  == [k \in 1..Len(ids) |->
                   Decide(ids[k], user, series_rows, video_rows, utcnow)]
    IN  /\ owner' = user
        /\ sched_log' = log
        /\ sched_queue' = SelectSeq(log, LAMBDA e : e.decision = "generate")

\* run_scheduling_cycle, its call of get_videos_to_generate
get_videos_to_generate ==
    /\ sched_pc = "idle"
    /\ PollAt(clock)
    /\ sched_pc' = "selected"
    /\ UNCHANGED <<series_rows, video_rows, upVars, calcVars, acctVars, env>>

\* run_scheduling_cycle returns: nothing (left) to generate
CycleReturns ==
    /\ sched_pc = "selected"
    /\ sched_queue = <<>>
    /\ sched_pc' = "idle"
    /\ sched_log' = <<>>
    /\ UNCHANGED <<owner, series_rows, video_rows, sched_queue, upVars, calcVars, acctVars,
                   env>>

\* how far generate_scheduled_video gets before its await: the commit of the
\* Video row raises, the commit of the Job row raises, or both rows are
\* stored and process_video_generation_db is called
DispatchOutcomes(videos) ==
    IF Len(videos) < MaxVideos
    THEN {"video_commit_raised", "job_commit_raised", "awaiting"}
    ELSE {"video_commit_raised"}

\* generate_scheduled_video up to its await: the Video row is inserted and
\* committed, then the Job row; an exception ends in the except clause
\* (db.rollback(), return None), which undoes nothing already committed
generate_scheduled_video ==
    /\ sched_pc = "selected"
    /\ sched_queue # <<>>
    /\ \E outcome \in DispatchOutcomes(video_rows) :
          /\ video_rows' =
                IF outcome = "video_commit_raised" THEN video_rows
                ELSE Append(video_rows,
                            Video(Head(sched_queue).series_id, "generating",
                                  Head(sched_queue).scheduled_upload_time))
          /\ jobs' = IF outcome = "awaiting" THEN jobs + 1 ELSE jobs
          /\ IF outcome = "awaiting"
             THEN /\ sched_pc' = "generating"
                  /\ sched_queue' = sched_queue
             ELSE /\ sched_pc' = "selected"
                  /\ sched_queue' = Tail(sched_queue)
    /\ UNCHANGED <<owner, series_rows, sched_log, upVars, calcVars, runs, env>>

\* the status process_video_generation_db leaves the video in
GenerationOutcomes == {"ready", "published", "failed"}

\* generate_scheduled_video after process_video_generation_db returned:
\* the series stats, then the next item of the cycle
GenerationReturns ==
    /\ sched_pc = "generating"
    /\ \E status \in GenerationOutcomes :
          video_rows' = [video_rows EXCEPT ![Len(video_rows)].status = status]
    /\ series_rows' =
          [series_rows EXCEPT ![Head(sched_queue).series_id].videos_generated = @ + 1]
    /\ sched_queue' = Tail(sched_queue)
    /\ sched_pc' = "selected"
    /\ UNCHANGED <<owner, sched_log, upVars, calcVars, acctVars, env>>

SchedNext ==
    \/ Tick
    \/ get_videos_to_generate
    \/ CycleReturns
    \/ generate_scheduled_video
    \/ GenerationReturns

\* the scheduler about to run its first cycle; no publish call in progress
SchedulerInit == SchedInit /\ CalcIdle /\ PublishIdle

SpecSched == SchedulerInit /\ [][SchedNext]_vars

NonFailed(video) == video.status \in {"generating", "ready", "published"}

\* C4: whatever the times the cycles of the scheduler run at, no generation
\* is dispatched for a (series, slot) pair that has a video generating,
\* ready or published, and so the table never holds two such videos with
\* the same series_id and scheduled_for.
C4_OneVideoPerSlot ==
    /\ \A i, j \in 1..Len(video_rows) :
          (/\ i # j
           /\ video_rows[i].series_id = video_rows[j].series_id
           /\ video_rows[i].scheduled_for = video_rows[j].scheduled_for
           /\ NonFailed(video_rows[i]))
          => ~NonFailed(video_rows[j])
    /\ sched_pc = "selected" =>
          \A k \in 1..Len(sched_queue) :
             \A i \in 1..Len(video_rows) :
                (/\ video_rows[i].series_id = sched_queue[k].series_id
                 /\ video_rows[i].scheduled_for
                        = sched_queue[k].scheduled_upload_time)
                => ~NonFailed(video_rows[i])

\* a cycle that ran inside the window of a slot and left the series out
\* because of the video that exists for the slot
C4_Witness ==
    /\ sched_pc = "selected"
    /\ \E k \in 1..Len(sched_log) :
          /\ sched_log[k].decision = "exists"
          /\ sched_log[k].scheduled_upload_time - 90 * 60 <= clock
          /\ clock <= sched_log[k].scheduled_upload_time

\* get_videos_to_generate has just returned: nothing of its list is
\* dispatched yet
JustPolled ==
    /\ sched_pc = "selected"
    /\ sched_queue = SelectSeq(sched_log, LAMBDA e : e.decision = "generate")

\* C18: however long the scheduler was down, every active series whose owner
\* may still generate gets a generation dispatched once polling is hourly
\* again: a cycle that leaves a series out is followed, within HorizonHours
\* of hourly cycles over the same videos, by one that selects it.
C18_ForwardProgress ==
    JustPolled =>
       \A e \in 1..Len(sched_log) :
          sched_log[e].decision # "limit" =>
             \E k \in 0..HorizonHours :
                Decide(sched_log[e].series_id, owner, series_rows, video_rows,
                       clock + k * 3600).decision = "generate"

\* C20: computing the next slot in get_videos_to_generate stores nothing, and
\* a Video row carrying a slot's scheduled_for (which is what advances the
\* series' last-scheduled marker) only comes into being together with the
\* call of process_video_generation_db for it.
C20_MarkerOnlyWithDispatch ==
    [][/\ (sched_pc = "idle" => video_rows' = video_rows)
       /\ (Len(video_rows') > Len(video_rows) => sched_pc' = "generating")]_vars

\* the series' video for the slot failed, no other video of the series holds
\* the slot, and now is still inside the slot's generation window
FailedInWindow(i) ==
    /\ video_rows[i].status = "failed"
    /\ should_generate_now(video_rows[i].scheduled_for, clock)
    /\ \A j \in 1..Len(video_rows) :
          (/\ video_rows[j].series_id = video_rows[i].series_id
           /\ video_rows[j].scheduled_for = video_rows[i].scheduled_for)
          => video_rows[j].status = "failed"

\* C24: a cycle that runs while the window of a slot is open, for a series
\* whose generation for that slot failed, selects the series for the same
\* slot again.
C24_FailedSlotRetried ==
    JustPolled =>
       \A i \in 1..Len(video_rows) :
          \A e \in 1..Len(sched_log) :
             (/\ FailedInWindow(i)
              /\ sched_log[e].series_id = video_rows[i].series_id
              /\ sched_log[e].decision # "limit")
             => /\ sched_log[e].decision = "generate"
                /\ sched_log[e].scheduled_upload_time = video_rows[i].scheduled_for

-----------------------------------------------------------------------------
(* The scheduler service: a cycle, a one-hour wait, the next cycle *)

\* the times the service can be started at, one hour ahead of its first
\* cycle: the half hours of the first hours of the day
ServiceStarts == { Day + k * 1800 : k \in 0..StartSlots }

\* as SchedInit, at any start time
ServiceStart ==
    /\ clock \in ServiceStarts
    /\ owner \in OwnerRows
    /\ series_rows \in [SeriesIds -> SeriesChoices]
    /\ series_rows[1].status = "active"
    /\ \A id \in SeriesIds :
          /\ series_rows[id].posting_times = series_rows[1].posting_times
          /\ series_rows[id].timezone = series_rows[1].timezone
    /\ video_rows = <<>>
    /\ sched_pc = "idle"
    /\ sched_queue = <<>>
    /\ sched_log = <<>>
    /\ runs = NoRuns
    /\ jobs = JobsOfMonth(owner, clock)

\* while True: ...; await asyncio.sleep(3600); run_scheduling_cycle():
\* the wait of one hour, then get_videos_to_generate
ServiceCycle ==
    /\ sched_pc = "idle"
    /\ clock + 3600 <= SchedDays * Day
    /\ clock' = clock + 3600
    /\ PollAt(clock')
    /\ sched_pc' = "selected"
    /\ UNCHANGED <<series_platforms, connections, db_video, video_record,
                   file_exists, dir_exists, posted, gen_pc, tasks, requests,
                   up_pc, callLocals, calcVars, series_rows, video_rows,
                   acctVars, env>>

\* time passing while process_video_generation_db is awaited
GenerationTick == sched_pc = "generating" /\ Tick

ServiceNext ==
    \/ ServiceCycle
    \/ CycleReturns
    \/ generate_scheduled_video
    \/ GenerationTick
    \/ GenerationReturns

ServiceInit == ServiceStart /\ CalcIdle /\ PublishIdle

SpecService == ServiceInit /\ [][ServiceNext]_vars

\* C19: under the service loop every generation is dispatched while now is
\* inside the window [slot - 1.5 h, slot] of the slot it is for, although a
\* cycle awaits each generation before it goes on.
C19_DispatchedInsideWindow ==
    [][Len(video_rows') > Len(video_rows) =>
          should_generate_now(video_rows'[Len(video_rows')].scheduled_for,
                              clock)]_vars

-----------------------------------------------------------------------------
(* Publishing when the credentials of one platform are missing from .env *)

\* the platforms whose engine reads client credentials from the environment
CredentialPlatforms == {"youtube", "tiktok"}

\* a series that publishes to a platform without credentials and to another
ConfigStart ==
    /\ UpStart
    /\ \E p \in CredentialPlatforms :
          /\ env = Platforms \ {p}
          /\ \E i, j \in 1..Len(series_platforms) :
                series_platforms[i] = p /\ series_platforms[j] # p

ConfigInit == ConfigStart /\ CalcIdle /\ SchedIdle

SpecConfig == ConfigInit /\ [][UpNext]_vars

\* C30: when the credentials of one platform are missing, the automatic
\* upload of a generated video still runs for the series' other platforms:
\* unless a commit failed, generation does not end before upload_to_platforms
\* has returned and has asked for the connection of every platform that is
\* configured.
C30_OtherPlatformsStillTried ==
    (/\ gen_pc = "done"
     /\ db_video.status # "failed"
     /\ up_faults = 0
     /\ requests = 0) =>
        /\ up_return.returned
        /\ \A p \in env :
              (\E i \in 1..Len(series_platforms) : series_platforms[i] = p) =>
                 \E k \in 1..Len(up_log) :
                    up_log[k].call = "query" /\ up_log[k].platform = p

-----------------------------------------------------------------------------
(* Runs of run_scheduler_once started by cron, which can overlap *)

\* hours the overlapping runs are followed for, from 23:00 of day 0
CronHours == 3

\* as SchedInit, with every cron run still to start
CronStart ==
    /\ clock = Day - 3600
    /\ owner \in OwnerRows
    /\ series_rows \in [SeriesIds -> SeriesChoices]
    /\ series_rows[1].status = "active"
    /\ \A id \in SeriesIds :
          /\ series_rows[id].posting_times = series_rows[1].posting_times
          /\ series_rows[id].timezone = series_rows[1].timezone
    /\ video_rows = <<>>
    /\ sched_pc = "off"
    /\ sched_queue = <<>>
    /\ sched_log = <<>>
    /\ runs = [r \in RunIds |->
                [pc |-> "idle", queue |-> <<>>, row |-> 0, started |-> NoTime]]
    /\ jobs = JobsOfMonth(owner, clock)

\* time passes, whatever the runs are doing
CronTick ==
    /\ clock + 3600 <= Day - 3600 + CronHours * 3600
    /\ clock' = clock + 3600
    /\ UNCHANGED <<series_platforms, connections, db_video, video_record,
                   file_exists, dir_exists, posted, gen_pc, tasks, requests,
                   up_pc, callLocals, calcVars, schedVars, acctVars, env>>

\* cron starts run r, one run an hour: run_scheduling_cycle calls
\* get_videos_to_generate
RunPoll(r) ==
    /\ runs[r].pc = "idle"
    /\ \A q \in RunIds : runs[q].started < clock
    /\ LET ids  == ActiveIds(series_rows)
           user == IF ids = <<>> THEN owner
                   ELSE check_monthly_reset(owner, clock)
           log  == [k \in 1..Len(ids) |->
                      Decide(ids[k], user, series_rows, video_rows, clock)]
       IN  /\ owner' = user
           /\ runs' = [runs EXCEPT
                         ![r] = [pc |-> "selected",
                                 queue |-> SelectSeq(log, LAMBDA e :
                                                          e.decision = "generate"),
                                 row |-> 0, started |-> clock]]
    /\ UNCHANGED <<series_rows, video_rows, sched_pc, sched_queue, sched_log,
                   jobs, upVars, calcVars, env>>

\* run r: generate_scheduled_video up to its await
RunDispatch(r) ==
    /\ runs[r].pc = "selected"
    /\ runs[r].queue # <<>>
    /\ \E outcome \in DispatchOutcomes(video_rows) :
          /\ video_rows' =
                IF outcome = "video_commit_raised" THEN video_rows
                ELSE Append(video_rows,
                            Video(Head(runs[r].queue).series_id, "generating",
                                  Head(runs[r].queue).scheduled_upload_time))
          /\ jobs' = IF outcome = "awaiting" THEN jobs + 1 ELSE jobs
          /\ runs' = IF outcome = "awaiting"
                     THEN [runs EXCEPT ![r].pc = "generating",
                                       ![r].row = Len(video_rows) + 1]
                     ELSE [runs EXCEPT ![r].queue = Tail(@)]
    /\ UNCHANGED <<owner, series_rows, sched_pc, sched_queue, sched_log,
                   upVars, calcVars, env>>

\* run r: process_video_generation_db returned, the series stats, next item
RunGenerationReturns(r) ==
    /\ runs[r].pc = "generating"
    /\ \E status \in GenerationOutcomes :
          video_rows' = [video_rows EXCEPT ![runs[r].row].status = status]
    /\ series_rows' =
          [series_rows EXCEPT
             ![Head(runs[r].queue).series_id].videos_generated = @ + 1]
    /\ runs' = [runs EXCEPT ![r].pc = "selected", ![r].queue = Tail(@)]
    /\ UNCHANGED <<owner, sched_pc, sched_queue, sched_log, jobs, upVars,
                   calcVars, env>>

\* run r: run_scheduling_cycle returns and the process ends
RunReturns(r) ==
    /\ runs[r].pc = "selected"
    /\ runs[r].queue = <<>>
    /\ runs' = [runs EXCEPT ![r].pc = "done"]
    /\ UNCHANGED <<owner, series_rows, video_rows, sched_pc, sched_queue,
                   sched_log, jobs, upVars, calcVars, env>>

CronNext ==
    \/ CronTick
    \/ \E r \in RunIds : RunPoll(r)
    \/ \E r \in RunIds : RunDispatch(r)
    \/ \E r \in RunIds : RunGenerationReturns(r)
    \/ \E r \in RunIds : RunReturns(r)

CronInit == CronStart /\ CalcIdle /\ PublishIdle

SpecCron == CronInit /\ [][CronNext]_vars

\* C25: runs of the scheduler that overlap never leave two videos that are
\* generating, ready or published for the same series and scheduled_for.
C25_NoDuplicateAcrossRuns ==
    \A i, j \in 1..Len(video_rows) :
       (/\ i < j
        /\ video_rows[i].series_id = video_rows[j].series_id
        /\ video_rows[i].scheduled_for = video_rows[j].scheduled_for)
       => ~(NonFailed(video_rows[i]) /\ NonFailed(video_rows[j]))

-----------------------------------------------------------------------------
(* The scheduler runs together with the owner's requests on the account *)

\* what the owner's counter can be this month: unused, one left, used up
AccountOwners ==
    { [plan |-> "launch", is_admin |-> FALSE, series_purchased |-> MaxSeries,
       videos_generated_this_month |-> 12 * MaxSeries - left,
       usage_reset_at |-> 0] :
        left \in {0, 1, 12 * MaxSeries} }

\* as CronStart for an owner of AccountOwners, with one cron run to come
AccountStart ==
    /\ clock = Day - 3600
    /\ owner \in AccountOwners
    /\ series_rows \in [SeriesIds -> SeriesChoices]
    /\ series_rows[1].status = "active"
    /\ \A id \in SeriesIds :
          /\ series_rows[id].posting_times = series_rows[1].posting_times
          /\ series_rows[id].timezone = ZoneUTC
    /\ video_rows = <<>>
    /\ sched_pc = "off"
    /\ sched_queue = <<>>
    /\ sched_log = <<>>
    /\ runs = [NoRuns EXCEPT ![1].pc = "idle"]
    /\ jobs = JobsOfMonth(owner, clock)

\* POST /api/series/{series_id}/generate; the commits of the request succeed
generate_video_for_series(series_id) ==
    /\ can_generate_video(owner)
    /\ series_rows[series_id].status = "active"
    /\ Len(video_rows) < MaxVideos
    /\ owner' = [owner EXCEPT !.videos_generated_this_month = @ + 1]
    /\ video_rows' = Append(video_rows, Video(series_id, "generating", NoTime))
    /\ jobs' = jobs + 1
    /\ UNCHANGED <<series_rows, sched_pc, sched_queue, sched_log, runs, upVars,
                   calcVars, env>>

\* the background task of a manual request ends: process_video_generation_db
ManualGenerationReturns(i) ==
    /\ video_rows[i].scheduled_for = NoTime
    /\ video_rows[i].status = "generating"
    /\ \E status \in GenerationOutcomes :
          video_rows' = [video_rows EXCEPT ![i].status = status]
    /\ UNCHANGED <<owner, series_rows, sched_pc, sched_queue, sched_log,
                   acctVars, upVars, calcVars, env>>

\* PATCH /api/series/{series_id}/status
update_series_status(series_id) ==
    /\ series_rows' =
          [series_rows EXCEPT
             ![series_id].status = IF @ = "active" THEN "paused" ELSE "active"]
    /\ UNCHANGED <<owner, video_rows, sched_pc, sched_queue, sched_log,
                   acctVars, upVars, calcVars, env>>

AccountNext ==
    \/ CronNext
    \/ \E id \in SeriesIds : generate_video_for_series(id)
    \/ \E i \in 1..Len(video_rows) : ManualGenerationReturns(i)
    \/ \E id \in SeriesIds : update_series_status(id)

AccountInit == AccountStart /\ CalcIdle /\ PublishIdle

SpecAccount == AccountInit /\ [][AccountNext]_vars

\* C27: the generations started in the month for a user who is not an admin,
\* by the scheduler and by manual requests together, never exceed the
\* videos_per_month of the user's plan.
C27_MonthlyQuotaHolds ==
    ~owner.is_admin => jobs <= videos_per_month(owner)

\* C28: the scheduler creates a Video record only for a series that is
\* active at that moment.
C28_ScheduledOnlyForActive ==
    [][(/\ Len(video_rows') > Len(video_rows)
        /\ video_rows'[Len(video_rows')].scheduled_for # NoTime)
       => series_rows[video_rows'[Len(video_rows')].series_id].status = "active"]_vars

-----------------------------------------------------------------------------
(* The owner's requests on the series of the account *)

\* User.plan_limits["series_limit"]
series_limit(user) ==
    IF user.is_admin THEN 999
    ELSE IF user.plan \in Plans THEN MaxOf(1, user.series_purchased) ELSE 0

\* an id of SeriesIds with no row in the series table
AbsentSeries == [Series("paused", <<>>, ZoneUTC) EXCEPT !.status = "absent"]

\* the account of a paying user right after sign-up: no series yet
SeriesStart ==
    /\ clock = Day
    /\ owner \in { [plan |-> plan, is_admin |-> FALSE, series_purchased |-> n,
                     videos_generated_this_month |-> 0, usage_reset_at |-> 0] :
                      plan \in Plans, n \in 0..(MaxSeries - 1) }
    /\ series_rows = [id \in SeriesIds |-> AbsentSeries]
    /\ video_rows = <<>>
    /\ sched_pc = "off"
    /\ sched_queue = <<>>
    /\ sched_log = <<>>
    /\ runs = NoRuns
    /\ jobs = 0

\* POST /api/series/create, the commits of the request succeeding: the 403
\* of the limit check leaves the state alone
create_series(series_id, posting_times, tz) ==
    /\ series_rows[series_id].status = "absent"
    /\ Len(ActiveIds(series_rows)) < series_limit(owner)
    /\ jobs < MaxVideos
    /\ series_rows' = [series_rows EXCEPT
                          ![series_id] = Series("active", posting_times, tz)]
    /\ video_rows' = Append(video_rows, Video(series_id, "generating", NoTime))
    /\ jobs' = jobs + 1
    /\ UNCHANGED <<owner, sched_pc, sched_queue, sched_log, runs, upVars,
                   calcVars, env>>

\* PATCH /api/series/{series_id}/status of a series that exists
toggle_series_status(series_id) ==
    /\ series_rows[series_id].status # "absent"
    /\ update_series_status(series_id)

\* DELETE /api/series/{series_id}: the videos go with the series
\* (cascade="all, delete-orphan")
delete_series(series_id) ==
    /\ series_rows[series_id].status # "absent"
    /\ series_rows' = [series_rows EXCEPT ![series_id] = AbsentSeries]
    /\ video_rows' = SelectSeq(video_rows, LAMBDA v : v.series_id # series_id)
    /\ UNCHANGED <<owner, sched_pc, sched_queue, sched_log, acctVars, upVars,
                   calcVars, env>>

SeriesNext ==
    \/ \E id \in SeriesIds, posting_times \in SchedPostingTimes,
          tz \in SchedZones : create_series(id, posting_times, tz)
    \/ \E id \in SeriesIds : toggle_series_status(id)
    \/ \E id \in SeriesIds : delete_series(id)
    \/ \E i \in 1..Len(video_rows) : ManualGenerationReturns(i)

SeriesInit == SeriesStart /\ CalcIdle /\ PublishIdle

SpecSeries == SeriesInit /\ [][SeriesNext]_vars

\* C29: for a user who is not an admin and whose plan does not change, the
\* number of active series never exceeds the series_limit of the plan,
\* whatever series are created, paused, resumed and deleted.
C29_ActiveSeriesWithinLimit ==
    ~owner.is_admin => Len(ActiveIds(series_rows)) <= series_limit(owner)

\* one call of the calculator on chosen arguments; nothing else running
CalculatorInit == CalcInit /\ UpIdle /\ SchedIdle

SpecCalc == CalculatorInit /\ [][CalcNext]_vars

=============================================================================
